---- MODULE Spec2Model ----
\* The native-library load hook of react-native-nitro-bg-timer
\* (android/src/main/cpp/cpp-adapter.cpp):
\*
\*   JNIEXPORT jint JNICALL JNI_OnLoad(JavaVM *vm, void *)
\*   {
\*     return facebook::jni::initialize(vm, [=]
\*       { margelo::nitro::backgroundtimer::initialize(vm); });
\*   }
\*
\* The loading thread is modelled step by step, with its call stack: the
\* host calls JNI_OnLoad, JNI_OnLoad builds the closure and calls the
\* binding layer, the binding layer runs the closure, the closure calls
\* the registration routine, and every frame returns to its caller.
\* The host, the binding layer (facebook::jni::initialize) and the body of
\* the registration routine are collaborators whose code is not in the
\* translation unit; they are modelled from the specification's
\* description of them, with fault injection.
EXTENDS Integers, Sequences, FiniteSets

\* ---------------------------------------------------------------- bounds

\* Number of distinct host handles the host may supply.
MaxHandles == 3
\* Number of non-null values the reserved second parameter may take.
MaxReserved == 1
\* Number of times the host may invoke the entry point.
MaxLoads == 2

\* ------------------------------------------------------------- constants

\* A null JavaVM pointer: no handle supplied yet.
NoHandle == 0
\* jni.h status codes.
JNI_OK == 0
JNI_ERR == -1
JNI_EVERSION == -3
JNI_ENOMEM == -4
JNI_VERSION_1_6 == 65542

Handles == 1..MaxHandles
ReservedValues == 0..MaxReserved
\* What a failing collaborator may signal.
FailureCodes == {JNI_ERR, JNI_EVERSION, JNI_ENOMEM}

\* Names of the frames of the loading thread's call stack.
F_OnLoad == "JNI_OnLoad"
F_Binding == "facebook::jni::initialize"
F_Lambda == "lambda"
F_Register == "margelo::nitro::backgroundtimer::initialize"

VARIABLES
  pc,                 \* position of the loading thread
  stack,              \* its call stack, outermost frame first
  vm,                 \* JNI_OnLoad's first parameter (the host handle)
  reserved,           \* JNI_OnLoad's second, unnamed parameter
  cbVm,               \* the handle the closure [=] captured by value
  initArg,            \* handle passed to facebook::jni::initialize
  regArg,             \* handle passed to the registration routine
  bindingInitialized, \* the process-wide binding layer is established
  bindingVm,          \* the handle the binding layer was established with
  registered,         \* handles the module is registered (callable) with
  initCount,          \* binding-layer initialize calls in the current load
  regCount,           \* registration-routine calls in the current load
  totalInit,          \* binding-layer initialize calls in the process
  totalReg,           \* registration-routine calls in the process
  bindOk,             \* the current load's binding initialization succeeded
  okLoads,            \* loads whose binding initialization succeeded
  regOutcome,         \* what the registration routine signalled
  cbOutcome,          \* what the closure signalled to the binding layer
  initOutcome,        \* what facebook::jni::initialize returned
  result,             \* what JNI_OnLoad returned to the host
  lifecycle,          \* the host's view of the library
  loads               \* invocations of the entry point so far

vars == <<pc, stack, vm, reserved, cbVm, initArg, regArg, bindingInitialized,
          bindingVm, registered, initCount, regCount, totalInit, totalReg,
          bindOk, okLoads, regOutcome, cbOutcome, initOutcome, result,
          lifecycle, loads>>

\* ------------------------------------------------------------------ Init

\* The process before the shared library is mapped: nothing of this
\* component exists, no handle was supplied, nothing was initialized.
Init ==
  /\ pc = "not_mapped"
  /\ stack = <<>>
  /\ vm = NoHandle
  /\ reserved = 0
  /\ cbVm = NoHandle
  /\ initArg = NoHandle
  /\ regArg = NoHandle
  /\ bindingInitialized = FALSE
  /\ bindingVm = NoHandle
  /\ registered = {}
  /\ initCount = 0
  /\ regCount = 0
  /\ totalInit = 0
  /\ totalReg = 0
  /\ bindOk = FALSE
  /\ okLoads = 0
  /\ regOutcome = JNI_OK
  /\ cbOutcome = JNI_OK
  /\ initOutcome = JNI_OK
  /\ result = JNI_OK
  /\ lifecycle = "UNLOADED"
  /\ loads = 0

\* --------------------------------------------------------------- actions

\* Mutant: an object with static storage whose constructor registers the
\* module while the library is mapped.
StaticInit_Eager ==
  /\ pc = "not_mapped"
  /\ pc' = "idle"
  /\ regCount' = regCount + 1
  /\ totalReg' = totalReg + 1
  /\ UNCHANGED <<stack, vm, reserved, cbVm, initArg, regArg,
                 bindingInitialized, bindingVm, registered, initCount,
                 totalInit, bindOk, okLoads, regOutcome, cbOutcome,
                 initOutcome, result, lifecycle, loads>>

\* The dynamic loader maps the library and runs the translation unit's
\* static initializers.  The file defines no object with static storage and
\* no constructor function: mapping has no effect on the binding layer or on
\* the registration routine.
StaticInit ==
  /\ pc = "not_mapped"
  /\ pc' = "idle"
  /\ UNCHANGED <<stack, vm, reserved, cbVm, initArg, regArg,
                 bindingInitialized, bindingVm, registered, initCount,
                 regCount, totalInit, totalReg, bindOk, okLoads, regOutcome, cbOutcome,
                 initOutcome, result, lifecycle, loads>>

\* The host invokes the exported entry point with its handle h and a
\* reserved value r, on the loading thread.  A new load begins: the per-load
\* observations start from zero.
HostLoadLibrary(h, r) ==
  /\ pc = "idle"
  /\ loads < MaxLoads
  /\ pc' = "onload"
  /\ stack' = <<F_OnLoad>>
  /\ vm' = h
  /\ reserved' = r
  /\ loads' = loads + 1
  /\ initCount' = 0
  /\ regCount' = 0
  /\ bindOk' = FALSE
  /\ regOutcome' = JNI_OK
  /\ cbOutcome' = JNI_OK
  /\ initOutcome' = JNI_OK
  /\ result' = JNI_OK
  /\ UNCHANGED <<cbVm, initArg, regArg, bindingInitialized, bindingVm,
                 registered, totalInit, totalReg, okLoads, lifecycle>>

\* Mutant: the closure captures a handle kept from the first load.
JNI_OnLoad_Call_StaleCapture ==
  /\ pc = "onload"
  /\ cbVm' = IF cbVm = NoHandle THEN vm ELSE cbVm
  /\ initArg' = vm
  /\ initCount' = initCount + 1
  /\ totalInit' = totalInit + 1
  /\ stack' = Append(stack, F_Binding)
  /\ pc' = "binding"
  /\ UNCHANGED <<vm, reserved, regArg, bindingInitialized, bindingVm,
                 registered, regCount, totalReg, bindOk, okLoads, regOutcome,
                 cbOutcome, initOutcome, result, lifecycle, loads>>

\* Mutant: the registration routine is also called directly, before the
\* binding layer.
JNI_OnLoad_Call_RegisterDirect ==
  /\ pc = "onload"
  /\ cbVm' = vm
  /\ initArg' = vm
  /\ regArg' = vm
  /\ regCount' = regCount + 1
  /\ totalReg' = totalReg + 1
  /\ initCount' = initCount + 1
  /\ totalInit' = totalInit + 1
  /\ stack' = Append(stack, F_Binding)
  /\ pc' = "binding"
  /\ UNCHANGED <<vm, reserved, bindingInitialized, bindingVm, registered,
                 bindOk, okLoads, regOutcome, cbOutcome, initOutcome, result,
                 lifecycle, loads>>

\* Mutant: the binding layer is initialized twice in one invocation.
JNI_OnLoad_Call_Twice ==
  /\ pc = "onload"
  /\ cbVm' = vm
  /\ initArg' = vm
  /\ initCount' = initCount + 2
  /\ totalInit' = totalInit + 2
  /\ stack' = Append(stack, F_Binding)
  /\ pc' = "binding"
  /\ UNCHANGED <<vm, reserved, regArg, bindingInitialized, bindingVm,
                 registered, regCount, totalReg, bindOk, okLoads, regOutcome,
                 cbOutcome, initOutcome, result, lifecycle, loads>>

\* Mutant: a once-guard of the entry point's own skips the call after the
\* first invocation.
JNI_OnLoad_Call_Guarded ==
  /\ pc = "onload"
  /\ IF totalInit = 0
       THEN /\ cbVm' = vm
            /\ initArg' = vm
            /\ initCount' = initCount + 1
            /\ totalInit' = totalInit + 1
            /\ stack' = Append(stack, F_Binding)
            /\ pc' = "binding"
            /\ UNCHANGED initOutcome
       ELSE /\ initOutcome' = JNI_VERSION_1_6
            /\ pc' = "init_done"
            /\ UNCHANGED <<cbVm, initArg, initCount, totalInit, stack>>
  /\ UNCHANGED <<vm, reserved, regArg, bindingInitialized, bindingVm,
                 registered, regCount, totalReg, bindOk, okLoads, regOutcome,
                 cbOutcome, result, lifecycle, loads>>

\* JNI_OnLoad, line 8-9: build the closure, which captures vm by value, and
\* call facebook::jni::initialize(vm, closure).  No condition guards the
\* call and the second parameter is not read.
JNI_OnLoad_Call ==
  /\ pc = "onload"
  /\ cbVm' = vm
  /\ initArg' = vm
  /\ initCount' = initCount + 1
  /\ totalInit' = totalInit + 1
  /\ stack' = Append(stack, F_Binding)
  /\ pc' = "binding"
  /\ UNCHANGED <<vm, reserved, regArg, bindingInitialized, bindingVm,
                 registered, regCount, totalReg, bindOk, okLoads, regOutcome, cbOutcome,
                 initOutcome, result, lifecycle, loads>>

\* The binding layer fails to initialize (fault injection): it signals the
\* failure f as its status and does not run the callback.
BindingInitializeFail(f) ==
  /\ pc = "binding"
  /\ initOutcome' = f
  /\ stack' = SubSeq(stack, 1, Len(stack) - 1)
  /\ pc' = "init_done"
  /\ UNCHANGED <<vm, reserved, cbVm, initArg, regArg, bindingInitialized,
                 bindingVm, registered, initCount, regCount, totalInit,
                 totalReg, bindOk, okLoads, regOutcome, cbOutcome, result, lifecycle,
                 loads>>

\* The binding layer establishes the process-wide binding with the handle
\* it was given (once: a later call finds it established) and runs the
\* callback inside that context.
BindingInitializeOk ==
  /\ pc = "binding"
  /\ bindingInitialized' = TRUE
  /\ bindingVm' = IF bindingInitialized THEN bindingVm ELSE initArg
  /\ bindOk' = TRUE
  /\ okLoads' = okLoads + 1
  /\ stack' = Append(stack, F_Lambda)
  /\ pc' = "callback"
  /\ UNCHANGED <<vm, reserved, cbVm, initArg, regArg, registered, initCount,
                 regCount, totalInit, totalReg, regOutcome, cbOutcome, initOutcome,
                 result, lifecycle, loads>>

\* Mutant: the closure's body calls the registration routine twice.
Callback_Twice ==
  /\ pc = "callback"
  /\ regArg' = cbVm
  /\ regCount' = regCount + 2
  /\ totalReg' = totalReg + 2
  /\ stack' = Append(stack, F_Register)
  /\ pc' = "registering"
  /\ UNCHANGED <<vm, reserved, cbVm, initArg, bindingInitialized, bindingVm,
                 registered, initCount, totalInit, bindOk, okLoads,
                 regOutcome, cbOutcome, initOutcome, result, lifecycle, loads>>

\* The closure's body, line 9: call the registration routine with the
\* captured handle.
Callback ==
  /\ pc = "callback"
  /\ regArg' = cbVm
  /\ regCount' = regCount + 1
  /\ totalReg' = totalReg + 1
  /\ stack' = Append(stack, F_Register)
  /\ pc' = "registering"
  /\ UNCHANGED <<vm, reserved, cbVm, initArg, bindingInitialized, bindingVm,
                 registered, initCount, totalInit, bindOk, okLoads,
                 regOutcome, cbOutcome, initOutcome, result, lifecycle, loads>>

\* The registration routine exposes the module to managed code for the
\* handle it was given and returns (o = JNI_OK), or fails with o.
RegisterModule(o) ==
  /\ pc = "registering"
  /\ registered' = IF o = JNI_OK THEN registered \cup {regArg} ELSE registered
  /\ regOutcome' = o
  /\ stack' = SubSeq(stack, 1, Len(stack) - 1)
  /\ pc' = "callback_ret"
  /\ UNCHANGED <<vm, reserved, cbVm, initArg, regArg, bindingInitialized,
                 bindingVm, initCount, regCount, totalInit, totalReg, bindOk,
                 okLoads, cbOutcome, initOutcome, result, lifecycle, loads>>

\* The closure has no statement after the call and no handler around it:
\* it ends with whatever the registration routine signalled.
CallbackReturn ==
  /\ pc = "callback_ret"
  /\ cbOutcome' = regOutcome
  /\ stack' = SubSeq(stack, 1, Len(stack) - 1)
  /\ pc' = "binding_post"
  /\ UNCHANGED <<vm, reserved, cbVm, initArg, regArg, bindingInitialized,
                 bindingVm, registered, initCount, regCount, totalInit,
                 totalReg, bindOk, okLoads, regOutcome, initOutcome, result,
                 lifecycle, loads>>

\* The binding layer reports its status: the fixed version code when the
\* callback completed, the callback's failure otherwise.
BindingFinish ==
  /\ pc = "binding_post"
  /\ initOutcome' = IF cbOutcome = JNI_OK THEN JNI_VERSION_1_6 ELSE cbOutcome
  /\ stack' = SubSeq(stack, 1, Len(stack) - 1)
  /\ pc' = "init_done"
  /\ UNCHANGED <<vm, reserved, cbVm, initArg, regArg, bindingInitialized,
                 bindingVm, registered, initCount, regCount, totalInit,
                 totalReg, bindOk, okLoads, regOutcome, cbOutcome, result, lifecycle,
                 loads>>

\* Mutant: the value of the call is dropped and JNI_OK is returned.
JNI_OnLoad_Return_Discard ==
  /\ pc = "init_done"
  /\ result' = JNI_OK
  /\ stack' = SubSeq(stack, 1, Len(stack) - 1)
  /\ pc' = "returned"
  /\ UNCHANGED <<vm, reserved, cbVm, initArg, regArg, bindingInitialized,
                 bindingVm, registered, initCount, regCount, totalInit,
                 totalReg, bindOk, okLoads, regOutcome, cbOutcome,
                 initOutcome, lifecycle, loads>>

\* Mutant: the value of the call is dropped and the version code is
\* returned whatever happened.
JNI_OnLoad_Return_Constant ==
  /\ pc = "init_done"
  /\ result' = JNI_VERSION_1_6
  /\ stack' = SubSeq(stack, 1, Len(stack) - 1)
  /\ pc' = "returned"
  /\ UNCHANGED <<vm, reserved, cbVm, initArg, regArg, bindingInitialized,
                 bindingVm, registered, initCount, regCount, totalInit,
                 totalReg, bindOk, okLoads, regOutcome, cbOutcome,
                 initOutcome, lifecycle, loads>>

\* Mutant: every failure is translated to JNI_ERR.
JNI_OnLoad_Return_Translate ==
  /\ pc = "init_done"
  /\ result' = IF initOutcome = JNI_VERSION_1_6 THEN JNI_VERSION_1_6 ELSE JNI_ERR
  /\ stack' = SubSeq(stack, 1, Len(stack) - 1)
  /\ pc' = "returned"
  /\ UNCHANGED <<vm, reserved, cbVm, initArg, regArg, bindingInitialized,
                 bindingVm, registered, initCount, regCount, totalInit,
                 totalReg, bindOk, okLoads, regOutcome, cbOutcome,
                 initOutcome, lifecycle, loads>>

\* Mutant: the binding is held in a scope that ends with JNI_OnLoad.
JNI_OnLoad_Return_Teardown ==
  /\ pc = "init_done"
  /\ result' = initOutcome
  /\ bindingInitialized' = FALSE
  /\ registered' = {}
  /\ stack' = SubSeq(stack, 1, Len(stack) - 1)
  /\ pc' = "returned"
  /\ UNCHANGED <<vm, reserved, cbVm, initArg, regArg, bindingVm, initCount,
                 regCount, totalInit, totalReg, bindOk, okLoads, regOutcome,
                 cbOutcome, initOutcome, lifecycle, loads>>

\* JNI_OnLoad, line 8: `return` the value of the call, as it is.
JNI_OnLoad_Return ==
  /\ pc = "init_done"
  /\ result' = initOutcome
  /\ stack' = SubSeq(stack, 1, Len(stack) - 1)
  /\ pc' = "returned"
  /\ UNCHANGED <<vm, reserved, cbVm, initArg, regArg, bindingInitialized,
                 bindingVm, registered, initCount, regCount, totalInit,
                 totalReg, bindOk, okLoads, regOutcome, cbOutcome, initOutcome,
                 lifecycle, loads>>

\* The host reads the load result: the library is LOADED once the entry
\* point has returned the version code.
HostFinishLoad ==
  /\ pc = "returned"
  /\ lifecycle' = IF result = JNI_VERSION_1_6 THEN "LOADED" ELSE lifecycle
  /\ pc' = "idle"
  /\ UNCHANGED <<stack, vm, reserved, cbVm, initArg, regArg,
                 bindingInitialized, bindingVm, registered, initCount,
                 regCount, totalInit, totalReg, bindOk, okLoads, regOutcome, cbOutcome,
                 initOutcome, result, loads>>

Next ==
  \/ StaticInit
  \/ \E h \in Handles, r \in ReservedValues : HostLoadLibrary(h, r)
  \/ JNI_OnLoad_Call
  \/ \E f \in FailureCodes : BindingInitializeFail(f)
  \/ BindingInitializeOk
  \/ Callback
  \/ \E o \in FailureCodes \cup {JNI_OK} : RegisterModule(o)
  \/ CallbackReturn
  \/ BindingFinish
  \/ JNI_OnLoad_Return
  \/ HostFinishLoad

Spec == Init /\ [][Next]_vars

\* The loading thread has returned to the host from the entry point.
Returned == pc \in {"returned", "idle"} /\ loads > 0

TypeOK ==
  /\ pc \in {"not_mapped", "idle", "onload", "binding", "callback",
             "registering", "callback_ret", "binding_post", "init_done",
             "returned"}
  /\ vm \in Handles \cup {NoHandle}
  /\ reserved \in ReservedValues
  /\ loads \in 0..MaxLoads
  /\ result \in FailureCodes \cup {JNI_OK, JNI_VERSION_1_6}

\* ---------------------------------------------------------------- claims

\* The binding-layer initialization of the current load succeeded: the
\* binding was established and the callback completed.
InitSucceeded == bindOk /\ cbOutcome = JNI_OK

\* C1: whenever the entry point was called with a valid handle and the
\* binding-layer initialization succeeded, the value it returned is the
\* fixed version code JNI_VERSION_1_6, the same for every successful call.
C1_SuccessReturnsVersion ==
  (Returned /\ vm \in Handles /\ InitSucceeded) => result = JNI_VERSION_1_6

\* A second invocation has returned after a successful initialization.
C1_Witness ==
  /\ pc = "returned"
  /\ loads = 2
  /\ InitSucceeded
  /\ regCount = 1
  /\ result = JNI_VERSION_1_6

\* C2: after a successful call of the entry point the registration routine
\* has been invoked exactly once in that load.
C2_RegisteredExactlyOnce ==
  (Returned /\ result = JNI_VERSION_1_6) => regCount = 1

\* A successful call has returned and the module is registered with the
\* handle of that call.
C2_Witness ==
  /\ pc = "returned"
  /\ result = JNI_VERSION_1_6
  /\ regCount = 1
  /\ vm \in registered

\* C3: if the binding layer's initialization fails, the entry point's
\* return value is not the version code and the registration routine is
\* not invoked at any point of that load.
C3_FailureReflected ==
  /\ (loads > 0 /\ initCount > 0 /\ ~bindOk) => regCount = 0
  /\ (Returned /\ ~bindOk) => (result # JNI_VERSION_1_6 /\ regCount = 0)

\* The entry point has returned from a load whose binding initialization
\* failed with an allocation failure.
C3_Witness ==
  /\ pc = "returned"
  /\ ~bindOk
  /\ initCount = 1
  /\ result = JNI_ENOMEM

\* C4: the entry point neither inspects, wraps nor translates: what it
\* returned is what the binding layer returned, the closure ended with what
\* the registration routine signalled, and a failure of the registration
\* routine inside the callback is the load result.
C4_Verbatim ==
  /\ Returned => result = initOutcome
  /\ (pc \in {"binding_post", "init_done"} \/ Returned) /\ bindOk
       => cbOutcome = regOutcome
  /\ (Returned /\ bindOk /\ regOutcome # JNI_OK) => result = regOutcome

\* The registration routine failed inside the callback with something other
\* than JNI_ERR and the entry point has returned just that.
C4_Witness ==
  /\ pc = "returned"
  /\ bindOk
  /\ regOutcome = JNI_EVERSION
  /\ result = JNI_EVERSION

\* C5: the host handle is passed through unchanged: the handle given to
\* the binding layer's initialize and the handle given to the registration
\* routine are the handle of the current invocation.
C5_HandlePassThrough ==
  /\ initCount > 0 => initArg = vm
  /\ regCount > 0 => regArg = vm

\* In a second invocation, made with another handle than the first, the
\* registration routine has been given the second handle.
C5_Witness ==
  /\ loads = 2
  /\ regCount = 1
  /\ regArg = vm
  /\ initArg = vm
  /\ bindingVm \in Handles
  /\ bindingVm # vm

\* C6: once the entry point has completed successfully the library is
\* LOADED, the binding layer initialized and the module callable in every
\* later state: the only lifecycle change is UNLOADED to LOADED, and no step
\* tears the binding down or removes a registration.
C6_StaysLoaded ==
  /\ [](lifecycle = "LOADED" => (bindingInitialized /\ registered # {}))
  /\ [][lifecycle # lifecycle' => (lifecycle = "UNLOADED" /\ lifecycle' = "LOADED")]_vars
  /\ [][(Returned /\ result = JNI_VERSION_1_6)
          => (bindingInitialized' /\ registered \subseteq registered')]_vars
  /\ [][bindingInitialized => bindingInitialized']_vars

\* The library is LOADED and a later invocation has failed: the binding is
\* still initialized and the module still registered.
C6_Witness ==
  /\ lifecycle = "LOADED"
  /\ pc = "idle"
  /\ loads = 2
  /\ result # JNI_VERSION_1_6
  /\ bindingInitialized
  /\ registered # {}

\* C7: the registration routine runs only inside the binding layer's
\* initialization context: each invocation happens from the closure, called
\* by the binding layer after it established the binding, called by
\* JNI_OnLoad, which has not returned.
C7_Ordering ==
  /\ [](pc = "registering"
          => /\ stack = <<F_OnLoad, F_Binding, F_Lambda, F_Register>>
             /\ bindingInitialized
             /\ bindOk
             /\ initCount = 1)
  /\ [][totalReg' # totalReg
          => /\ stack = <<F_OnLoad, F_Binding, F_Lambda>>
             /\ bindingInitialized
             /\ bindOk]_vars

\* The registration routine is running, under the closure, under the
\* binding layer, under JNI_OnLoad.
C7_Witness ==
  /\ pc = "registering"
  /\ stack = <<F_OnLoad, F_Binding, F_Lambda, F_Register>>
  /\ bindingInitialized
  /\ regCount = 1

\* C8: the binding layer is initialized at most once per load, and not at
\* all as long as the host has supplied no valid handle.
C8_AtMostOncePerLoad ==
  /\ initCount \in {0, 1}
  /\ vm = NoHandle => (totalInit = 0 /\ ~bindingInitialized)

\* The second load has initialized the binding layer: once in this load,
\* twice in the process.
C8_Witness ==
  /\ loads = 2
  /\ initCount = 1
  /\ totalInit = 2
  /\ vm \in Handles

\* C9: before the host calls the entry point the component has done
\* nothing: the binding layer is uninitialized and the registration routine
\* was never invoked.
C9_NoEagerInit ==
  loads = 0 => /\ ~bindingInitialized
               /\ totalInit = 0
               /\ totalReg = 0
               /\ registered = {}
               /\ stack = <<>>

\* The library is mapped, its static initialization is over and the entry
\* point has not been called.
C9_Witness ==
  /\ pc = "idle"
  /\ loads = 0
  /\ totalReg = 0
  /\ ~bindingInitialized

\* C10: the entry point keeps no guard: every invocation makes exactly one
\* call to the binding layer's initialize, the registration routine runs
\* once for each of those calls that succeeds and never otherwise (two
\* succeeding invocations run it twice), whatever the reserved parameter.
C10_NoGuard ==
  /\ totalInit \in {loads - 1, loads}
  /\ pc \notin {"not_mapped", "idle", "onload"} => totalInit = loads
  /\ Returned => (totalInit = loads /\ totalReg = okLoads)
  /\ totalReg <= okLoads

\* The host has invoked the entry point twice, the second time with a
\* non-null reserved value, and the registration routine has run twice.
C10_Witness ==
  /\ pc = "idle"
  /\ loads = 2
  /\ okLoads = 2
  /\ totalReg = 2
  /\ reserved # 0

====
